---- MODULE Spec2Model ----
(***************************************************************************)
(* State-machine model of the VMware NSX Defender expansion module         *)
(* (misp_modules/modules/expansion/vmware_nsx.py): the handler's control   *)
(* flow over its downstream collaborators, and the pure helpers it uses    *)
(* (_get_latest_analysis, _parse_submission_response, _get_analysis_tags,  *)
(* ResultParser.parse).                                                    *)
(*                                                                         *)
(* Spec      the handler, one invocation, with the collaborators'          *)
(*           answers chosen by the environment.                            *)
(* SpecPure  the pure helpers applied to inputs drawn from bounded sets.   *)
(***************************************************************************)
EXTENDS Integers, Sequences, FiniteSets, TLC

VARIABLES
    pc,            \* position of the handler
    request,       \* the decoded request's attribute
    config,        \* the request's config
    clients,       \* analysis_clients: the endpoints, in dict order
    misp_client,   \* "none" | "ok"
    vt_client,     \* "none" | "open" | "closed"
    file_data,     \* "none" | "empty" | "bytes"
    task_uuid,     \* the task handle
    tags,          \* the handler's tag list
    report,        \* the report get_result returned
    calls,         \* every downstream call made so far, in order
    response,      \* what the handler returned (or raised)
    fn,            \* SpecPure: the helper under test
    args,          \* SpecPure: its arguments
    ret            \* SpecPure: its result

vars == <<pc, request, config, clients, misp_client, vt_client, file_data,
          task_uuid, tags, report, calls, response, fn, args, ret>>

handlerVars == <<pc, request, config, clients, misp_client, vt_client, file_data,
                 task_uuid, tags, report, calls, response>>

pureVars == <<fn, args, ret>>

----------------------------------------------------------------------------
(* Bounds of the input sets.                                               *)

MaxTasks == 2

MaxDay == 2

HandlerMaxTasks == 1

MaxActivities == 2

MaxTechniques == 1

MaxGalaxy == 2

MaxRawTags == 2
\* The longest hostname of a DNS query.
MaxHostLen == 7
\* The most addresses one DNS query resolved to.
MaxResults == 2
\* The most DNS queries of one report.
MaxQueries == 2

----------------------------------------------------------------------------
(* Generic helpers.                                                        *)

Range(s) == {s[i] : i \in 1..Len(s)}

SeqsUpTo(S, n) == UNION {[1..k -> S] : k \in 0..n}

RECURSIVE Flatten(_)
Flatten(ss) == IF ss = <<>> THEN <<>> ELSE Head(ss) \o Flatten(Tail(ss))

----------------------------------------------------------------------------
(* Module constants.                                                       *)

NSX_DEFENDER_DC_WESTUS == "westus"

NSX_DEFENDER_DC_NLEMEA == "nlemea"

DEFAULT_ENDPOINT == NSX_DEFENDER_DC_WESTUS

WORKFLOW_COMPLETE_TAG == "workflow:state='complete'"

WORKFLOW_INCOMPLETE_TAG == "workflow:state='incomplete'"

VT_DOWNLOAD_TAG == "vt:download"

\* Python's None for a task uuid, and the empty string.
NoneUuid == <<"None", 0>>

EmptyUuid == <<"", 0>>

\* The uuid the primary endpoint gives to a fresh submission.
NewUuid == <<"new", 1>>

\* Python's None (or an absent key) for a score.
NoScore == -1

Scores == {NoScore, 0, 70}

\* Truthiness of a task uuid ("if not task_uuid").
Truthy(u) == u # NoneUuid /\ u # EmptyUuid

----------------------------------------------------------------------------
(* _get_latest_analysis                                                    *)

SecondsPerDay == 86400

\* "expires" timestamps "%Y-%m-%d %H:%M:%S", as <<day, second of the day>>:
\* the first and the last second of each day.
Timestamps == (1..MaxDay) \X {0, SecondsPerDay - 1}

\* datetime.strptime: the timestamp as a point on the time line.
_parse_expiration(task_info) ==
    task_info.expires[1] * SecondsPerDay + task_info.expires[2]

\* What one endpoint may answer to query_file_hash: the i-th record of
\* endpoint dc is the task <<dc, i>>.
TaskLists(dc) ==
    {[i \in 1..Len(e) |-> [task_uuid |-> <<dc, i>>, expires |-> e[i]]] :
        e \in SeqsUpTo(Timestamps, MaxTasks)}

\* sorted(seq, key=_parse_expiration): Python's sort is stable.
RECURSIVE InsertBeforeEqual(_, _)
InsertBeforeEqual(sorted, t) ==
    IF sorted = <<>> THEN <<t>>
    ELSE IF _parse_expiration(sorted[Len(sorted)]) < _parse_expiration(t)
         THEN Append(sorted, t)
         ELSE Append(InsertBeforeEqual(SubSeq(sorted, 1, Len(sorted) - 1), t),
                     sorted[Len(sorted)])

RECURSIVE Insert(_, _)
Insert(sorted, t) ==
    IF sorted = <<>> THEN <<t>>
    ELSE IF _parse_expiration(sorted[Len(sorted)]) <= _parse_expiration(t)
         THEN Append(sorted, t)
         ELSE Append(Insert(SubSeq(sorted, 1, Len(sorted) - 1), t),
                     sorted[Len(sorted)])

RECURSIVE SortedByExpiration(_)
SortedByExpiration(seq) ==
    IF seq = <<>> THEN <<>>
    ELSE Insert(SortedByExpiration(SubSeq(seq, 1, Len(seq) - 1)), seq[Len(seq)])

\* The merge loop: responses[i] is the "tasks" list of the i-th client.
MergeResults(responses) == Flatten(responses)

LatestUnsorted(responses) ==
    LET results == MergeResults(responses)
    IN  IF results # <<>> THEN results[Len(results)].task_uuid ELSE NoneUuid

_get_latest_analysis(responses) ==
    LET results == MergeResults(responses)
    IN  IF results # <<>>
        THEN SortedByExpiration(results)[Len(results)].task_uuid
        ELSE NoneUuid

----------------------------------------------------------------------------
(* _parse_submission_response                                              *)

SubmissionResponses == [task_uuid : {NoneUuid, EmptyUuid, NewUuid}, score : Scores]

SubmissionTruthyScore(resp) ==
    IF ~Truthy(resp.task_uuid)
    THEN [ok |-> FALSE, task_uuid |-> NoneUuid, tags |-> <<>>]
    ELSE [ok |-> TRUE, task_uuid |-> resp.task_uuid,
          tags |-> IF resp.score # NoScore /\ resp.score # 0
                   THEN <<WORKFLOW_COMPLETE_TAG>>
                   ELSE <<WORKFLOW_INCOMPLETE_TAG>>]

\* ok = FALSE is the ValueError "Submission failed, unable to process the data".
_parse_submission_response(resp) ==
    IF ~Truthy(resp.task_uuid)
    THEN [ok |-> FALSE, task_uuid |-> NoneUuid, tags |-> <<>>]
    ELSE [ok |-> TRUE, task_uuid |-> resp.task_uuid,
          tags |-> IF resp.score # NoScore
                   THEN <<WORKFLOW_COMPLETE_TAG>>
                   ELSE <<WORKFLOW_INCOMPLETE_TAG>>]

----------------------------------------------------------------------------
(* _get_analysis_tags                                                      *)

TagTypes == {"av_family", "av_class", "lastline_malware", "other"}

TagValues == {"a", "b"}

\* The "analysis_tags" lists get_analysis_tags may answer with.
RawTagLists == SeqsUpTo([type : TagTypes, value : TagValues], MaxRawTags)

\* The strings that occur in tags, in ascending (lexicographic) order.
LexOrder == <<"a", "av-cls", "av-fam", "b", "nsx">>

Rank(s) == CHOOSE i \in 1..Len(LexOrder) : LexOrder[i] = s

\* tag_header of a raw tag type; "" is None.
TagHeader(tag_type) ==
    CASE tag_type = "av_family" -> "av-fam"
      [] tag_type = "av_class" -> "av-cls"
      [] tag_type = "lastline_malware" -> "nsx"
      [] OTHER -> ""

\* "{}:{}".format(tag_header, value)
FormatTag(header, value) == header \o ":" \o value

\* Order of the formatted strings: no header is a prefix of another, so
\* "h:v" strings compare by header first and by value next.
PairLess(p, q) ==
    \/ Rank(p[1]) < Rank(q[1])
    \/ p[1] = q[1] /\ Rank(p[2]) < Rank(q[2])

\* sorted(set): ascending, one element per member.
RECURSIVE SortedPairs(_)
SortedPairs(S) ==
    IF S = {} THEN <<>>
    ELSE LET m == CHOOSE x \in S : \A y \in S \ {x} : PairLess(x, y)
         IN  <<m>> \o SortedPairs(S \ {m})

AnalysisTagsUnsorted(raw) ==
    LET kept == SelectSeq(raw, LAMBDA t : TagHeader(t.type) # "")
    IN  [i \in 1..Len(kept) |-> FormatTag(TagHeader(kept[i].type), kept[i].value)]

_get_analysis_tags(raw) ==
    LET kept == {<<TagHeader(raw[i].type), raw[i].value>> :
                    i \in {j \in 1..Len(raw) : TagHeader(raw[j].type) # ""}}
        srt  == SortedPairs(kept)
    IN  [i \in 1..Len(srt) |-> FormatTag(srt[i][1], srt[i][2])]

----------------------------------------------------------------------------
(* _get_mitre_techniques_galaxy and ResultParser.parse                     *)

\* Technique ids are strings read character by character (substring
\* containment, casefold, the "." test): sequences of characters.
Lower(c) == CASE c = "T" -> "t" [] OTHER -> c

casefold(s) == [i \in 1..Len(s) |-> Lower(s[i])]

\* needle in hay
Contains(needle, hay) ==
    \E i \in 0..(Len(hay) - Len(needle)) : SubSeq(hay, i + 1, i + Len(needle)) = needle

HasDot(s) == \E i \in 1..Len(s) : s[i] = "."

\* Technique ids a report may reference.
TechniqueIds == {<<"T", "1">>, <<"t", "1">>, <<"T", "1", ".", "1">>}

\* Clusters of the attack-pattern galaxy: value and tag_name.
Clusters ==
    { [value |-> <<"T", "1">>,           tag_name |-> "mitre:T1"],
      [value |-> <<"T", "1", ".", "1">>, tag_name |-> "mitre:T1.1"],
      [value |-> <<"T", "1", "1">>,      tag_name |-> "mitre:T11"],
      [value |-> <<"T", "2">>,           tag_name |-> "mitre:T2"] }

ClusterLists == SeqsUpTo(Clusters, MaxGalaxy)

\* ret[key] = value on a dict kept as its items in insertion order.
DictSet(d, key, value) ==
    IF \E i \in 1..Len(d) : d[i].value = key
    THEN [i \in 1..Len(d) |->
            IF d[i].value = key THEN [value |-> key, tag_name |-> value] ELSE d[i]]
    ELSE Append(d, [value |-> key, tag_name |-> value])

RECURSIVE _get_mitre_techniques_galaxy(_)
_get_mitre_techniques_galaxy(clusters) ==
    IF clusters = <<>> THEN <<>>
    ELSE LET c == clusters[Len(clusters)]
         IN  DictSet(_get_mitre_techniques_galaxy(SubSeq(clusters, 1, Len(clusters) - 1)),
                     c.value, c.tag_name)

Galaxies == {_get_mitre_techniques_galaxy(c) : c \in ClusterLists}

\* The test of lines 204 and 207 for one technique and one catalog entry.
QualifiesAnyMatch(technique_id, misp_technique_id) ==
    Contains(casefold(technique_id), casefold(misp_technique_id))

QualifiesReversed(technique_id, misp_technique_id) ==
    /\ Contains(casefold(misp_technique_id), casefold(technique_id))
    /\ (HasDot(technique_id) \/ ~HasDot(misp_technique_id))

Qualifies(technique_id, misp_technique_id) ==
    /\ Contains(casefold(technique_id), casefold(misp_technique_id))
    /\ (HasDot(technique_id) \/ ~HasDot(misp_technique_id))

\* The inner loop for one technique: the tags it adds, scanning the catalog
\* from entry i on.
RECURSIVE ScanNoBreak(_, _, _)
ScanNoBreak(technique_id, galaxy, i) ==
    IF i > Len(galaxy) THEN <<>>
    ELSE IF Qualifies(technique_id, galaxy[i].value)
         THEN <<galaxy[i].tag_name>> \o ScanNoBreak(technique_id, galaxy, i + 1)
         ELSE ScanNoBreak(technique_id, galaxy, i + 1)

RECURSIVE ScanGalaxy(_, _, _)
ScanGalaxy(technique_id, galaxy, i) ==
    IF i > Len(galaxy) THEN <<>>
    ELSE IF Qualifies(technique_id, galaxy[i].value)
         THEN <<galaxy[i].tag_name>>
         ELSE ScanGalaxy(technique_id, galaxy, i + 1)

\* Lines 201-209: for every technique reference, in the report's order, the
\* tags added for it.
MitreTags(result, galaxy) ==
    LET refs == Flatten(result.activity_to_mitre_techniques)
    IN  [i \in 1..Len(refs) |-> ScanGalaxy(refs[i], galaxy, 1)]

\* tau_clients.get_task_link and is_task_hosted: the link names the task and
\* whether it points at the hosted service.
TaskLink(uuid, hosted) == [task_uuid |-> uuid, hosted |-> hosted]

SubjectObjectAlwaysFile(result) == [name |-> "file"]

SubjectObject(result) ==
    IF result.analysis_subject = "url"
    THEN [name |-> "url"]
    ELSE [name |-> "file"]

WPAD == <<"w", "p", "a", "d">>

LOCALHOST == <<"l", "o", "c", "a", "l", "h", "o", "s", "t">>

Digits == <<"0", "1", "2", "3", "4", "5", "6", "7", "8", "9">>

IsDigit(c) == \E i \in 1..Len(Digits) : Digits[i] = c

DigitValue(c) == (CHOOSE i \in 1..Len(Digits) : Digits[i] = c) - 1

\* str.split("."): the labels between the dots.
RECURSIVE SplitDots(_)
SplitDots(s) ==
    IF ~HasDot(s) THEN <<s>>
    ELSE LET i == CHOOSE j \in 1..Len(s) :
                      s[j] = "." /\ \A k \in 1..(j - 1) : s[k] # "."
         IN  <<SubSeq(s, 1, i - 1)>> \o SplitDots(SubSeq(s, i + 1, Len(s)))

RECURSIVE OctetValue(_)
OctetValue(o) ==
    IF o = <<>> THEN 0
    ELSE 10 * OctetValue(SubSeq(o, 1, Len(o) - 1)) + DigitValue(o[Len(o)])

\* Line 139: whether ipaddress.ip_address accepts the string. Of the literals
\* it accepts, those with a dot and no trailing dot that can be written here
\* are the dotted quads: four decimal octets of one to three digits, each at
\* most 255.
IsIpAddress(s) ==
    LET octets == SplitDots(s)
    IN  /\ Len(octets) = 4
        /\ \A i \in 1..Len(octets) :
              /\ octets[i] # <<>>
              /\ Len(octets[i]) <= 3
              /\ \A k \in 1..Len(octets[i]) : IsDigit(octets[i][k])
              /\ OctetValue(octets[i]) <= 255

\* Lines 133-142: whether the query is skipped: a continue is reached before
\* ip_address raises ValueError.
SkipsQueryNoIpCheck(hostname) ==
    \/ hostname = WPAD \/ hostname = LOCALHOST
    \/ ~HasDot(hostname) \/ hostname[Len(hostname)] = "."

SkipsQuery(hostname) ==
    \/ hostname = WPAD \/ hostname = LOCALHOST
    \/ ~HasDot(hostname) \/ hostname[Len(hostname)] = "."
    \/ IsIpAddress(hostname)

\* Lines 144-149: the object of one query.
DomainIpObject(dns_query) ==
    [name |-> "domain-ip", hostname |-> dns_query.hostname, ip |-> dns_query.results]

\* Lines 130-149: the objects of the DNS queries, in the report's order.
DomainIpObjects(result) ==
    LET kept == SelectSeq(result.dns_queries, LAMBDA q : ~SkipsQuery(q.hostname))
    IN  [i \in 1..Len(kept) |-> DomainIpObject(kept[i])]

\* Line 137 with a query that has no "hostname": the membership test on None
\* raises TypeError.
NoHostname(result) ==
    \E i \in 1..Len(result.dns_queries) : ~result.dns_queries[i].has_hostname

SandboxReportObject(analysis_link, result) ==
    [name |-> "sandbox-report",
     score |-> result.score,
     sandbox_type |-> IF analysis_link.hosted THEN "saas" ELSE "on-premise",
     permalink |-> analysis_link]

SignatureObjectsAlways(result) ==
    << [name |-> "sb-signature", signature |-> result.malicious_activity] >>

SignatureObjects(result) ==
    IF result.malicious_activity # <<>>
    THEN << [name |-> "sb-signature", signature |-> result.malicious_activity] >>
    ELSE <<>>

\* ResultParser.parse: exc names the exception it raises ("" for none),
\* objects and tags are the event's, mitre the tags added per technique
\* reference.
parse(analysis_link, result, galaxy) ==
    IF result.analysis_subject = "missing"
    THEN [exc |-> "KeyError", objects |-> <<>>, tags |-> <<>>, mitre |-> <<>>]
    ELSE IF NoHostname(result)
    THEN [exc |-> "TypeError", objects |-> <<>>, tags |-> <<>>, mitre |-> <<>>]
    ELSE IF result.score = NoScore
    THEN [exc |-> "KeyError", objects |-> <<>>, tags |-> <<>>, mitre |-> <<>>]
    ELSE [exc |-> "",
          objects |-> <<SubjectObject(result)>>
                      \o DomainIpObjects(result)
                      \o <<SandboxReportObject(analysis_link, result)>>
                      \o SignatureObjects(result),
          tags |-> Flatten(MitreTags(result, galaxy)),
          mitre |-> MitreTags(result, galaxy)]

Activities == {"act1", "act2"}

\* Reports whose technique mapping varies.
MitreReports ==
    [analysis_subject : {"file"}, score : {70}, malicious_activity : {<<>>},
     activity_to_mitre_techniques :
        SeqsUpTo(SeqsUpTo(TechniqueIds, MaxTechniques), MaxActivities),
     dns_queries : {<<>>}]

\* Reports whose objects vary.
ObjectReports ==
    [analysis_subject : {"url", "file", "missing"}, score : Scores,
     malicious_activity : SeqsUpTo(Activities, MaxActivities),
     activity_to_mitre_techniques : {<<>>}, dns_queries : {<<>>}]

HostChars == {"a", "1", "."}

Hostnames ==
    SeqsUpTo(HostChars, MaxHostLen) \cup {WPAD, LOCALHOST, WPAD \o <<".", "a">>}

Ips == {"ip1", "ip2"}

DnsQuery(hostname, results) ==
    [has_hostname |-> TRUE, hostname |-> hostname, results |-> results]

\* dns_query.get("hostname") is None.
DnsQueryNoHostname == [has_hostname |-> FALSE, hostname |-> <<>>, results |-> <<>>]

\* The queries that reports of several queries are made of.
SampleQueries ==
    {DnsQuery(h, <<"ip1">>) :
        h \in {WPAD, <<"a">>, <<"a", ".">>, <<"a", ".", "a">>,
               <<"1", ".", "1", ".", "1", ".", "1">>}}
    \cup {DnsQueryNoHostname}

\* Reports whose DNS queries vary: one query of any hostname, or several
\* sample queries.
DnsReports ==
    [analysis_subject : {"file"}, score : {70}, malicious_activity : {<<>>},
     activity_to_mitre_techniques : {<<>>},
     dns_queries : {<<DnsQuery(h, r)>> : h \in Hostnames,
                                         r \in SeqsUpTo(Ips, MaxResults)}
                   \cup SeqsUpTo(SampleQueries, MaxQueries)]

Reports == MitreReports \cup ObjectReports \cup DnsReports

----------------------------------------------------------------------------
(* The handler's inputs.                                                   *)

InputTypes == {"attachment", "malware-sample", "url", "md5", "sha1", "sha256"}

HashTypes == {"md5", "sha1", "sha256"}

SampleTypes == {"attachment", "malware-sample"}

\* request["attribute"]: whether it is there, its type ("missing" for no
\* "type" key), whether it has a "value", and what its "data" is.
Requests ==
    { [has_attribute |-> FALSE, type |-> "missing", value |-> "missing", data |-> "missing"],
      [has_attribute |-> TRUE, type |-> "missing", value |-> "present", data |-> "missing"] }
    \cup [has_attribute : {TRUE}, type : {"url"} \cup HashTypes,
          value : {"missing", "present"}, data : {"missing"}]
    \cup [has_attribute : {TRUE}, type : {"malware-sample"},
          value : {"missing", "present"},
          data : {"missing", "not_string", "bad_base64", "bad_zip", "empty", "bytes"}]
    \cup [has_attribute : {TRUE}, type : {"attachment"},
          value : {"missing", "present"},
          data : {"missing", "not_string", "bad_base64", "empty", "bytes"}]

\* request["config"]: which keys it has and whether the optional clients can
\* be built from them.
Configs ==
    [analysis_key : BOOLEAN, analysis_api_token : BOOLEAN,
     analysis_url : BOOLEAN,
     vt_key : {"absent", "invalid", "ok"},
     misp : {"absent", "unreachable", "ok"}]

\* What the endpoints answer to the handler's query_file_hash.
HandlerTaskLists(dc) ==
    {[i \in 1..Len(e) |-> [task_uuid |-> <<dc, i>>, expires |-> e[i]]] :
        e \in SeqsUpTo({t \in Timestamps : t[1] = 1}, HandlerMaxTasks)}

\* What get_analysis_tags answers to the handler.
HandlerRawTags ==
    { <<>>,
      << [type |-> "av_family", value |-> "b"],
         [type |-> "other", value |-> "a"],
         [type |-> "av_class", value |-> "a"] >> }

\* What get_result answers to the handler.
HandlerReports ==
    { [analysis_subject |-> "url", score |-> 70, malicious_activity |-> <<"act1">>,
       activity_to_mitre_techniques |-> << <<<<"T", "1", ".", "1">>>> >>,
       dns_queries |-> <<>>],
      [analysis_subject |-> "file", score |-> 0, malicious_activity |-> <<>>,
       activity_to_mitre_techniques |-> <<>>,
       dns_queries |-> <<DnsQuery(<<"a", ".", "a">>, <<"ip1">>),
                         DnsQuery(WPAD, <<>>)>>],
      [analysis_subject |-> "missing", score |-> 70, malicious_activity |-> <<>>,
       activity_to_mitre_techniques |-> <<>>, dns_queries |-> <<>>],
      [analysis_subject |-> "file", score |-> NoScore, malicious_activity |-> <<>>,
       activity_to_mitre_techniques |-> <<>>, dns_queries |-> <<>>] }

\* What get_galaxy answers to the handler.
HandlerClusterLists ==
    { <<>>,
      << [value |-> <<"T", "1">>, tag_name |-> "mitre:T1"],
         [value |-> <<"T", "1", ".", "1">>, tag_name |-> "mitre:T1.1"] >> }

NoReport ==
    [analysis_subject |-> "none", score |-> NoScore, malicious_activity |-> <<>>,
     activity_to_mitre_techniques |-> <<>>, dns_queries |-> <<>>]

NoLink == TaskLink(NoneUuid, FALSE)

NoResponse ==
    [kind |-> "none", error |-> "", link |-> NoLink, tags |-> <<>>, objects |-> <<>>]

\* {"error": ...}
ErrorResponse(what) ==
    [kind |-> "error", error |-> what, link |-> NoLink, tags |-> <<>>, objects |-> <<>>]

\* An exception no except clause of the handler catches.
Raised(exc) ==
    [kind |-> "raise", error |-> exc, link |-> NoLink, tags |-> <<>>, objects |-> <<>>]

\* {"results": {"types": "link", ..., "values": analysis_link, "tags": tags}}
LinkResponse(analysis_link, tgs) ==
    [kind |-> "link", error |-> "", link |-> analysis_link, tags |-> tgs,
     objects |-> <<>>]

\* {"results": {"Object": ..., "Tag": ...}}
GraphResponse(objects, tgs) ==
    [kind |-> "graph", error |-> "", link |-> NoLink, tags |-> tgs, objects |-> objects]

\* One downstream call: the operation, the endpoint it went to, the task it
\* named (or answered with), how it ended, why it failed, how many tasks a
\* query returned and the score a submission answered with.
Call(op, endpoint, uuid, outcome, why, count, score) ==
    [op |-> op, endpoint |-> endpoint, uuid |-> uuid, outcome |-> outcome,
     why |-> why, count |-> count, score |-> score]

\* The ways a sandbox call fails.
Failures == { [outcome |-> "CommunicationError", why |-> "unreachable"],
              [outcome |-> "ApiError", why |-> "rejected"] }

\* Whether the primary endpoint holds the task: it holds what was submitted
\* to it and what its own query_file_hash listed.
Held(uuid) == uuid[1] \in {DEFAULT_ENDPOINT, "new"}

\* The ways tag collection and report fetch fail for a task: the primary
\* endpoint may not know a task that another endpoint listed, and a report may
\* not be ready yet.
TaskFailures(uuid) ==
    Failures
    \cup (IF Held(uuid) THEN {} ELSE {[outcome |-> "ApiError", why |-> "unknown_task"]})

ReportFailures(uuid) ==
    TaskFailures(uuid) \cup {[outcome |-> "ApiError", why |-> "pending"]}

----------------------------------------------------------------------------
(* The handler, one invocation.                                            *)

Init ==
    /\ pc = "connect"
    /\ request \in Requests
    /\ config \in Configs
    /\ clients = <<>>
    /\ misp_client = "none"
    /\ vt_client = "none"
    /\ file_data = "none"
    /\ task_uuid = NoneUuid
    /\ tags = <<>>
    /\ report = NoReport
    /\ calls = <<>>
    /\ response = NoResponse
    /\ fn = "handler"
    /\ args = <<>>
    /\ ret = <<>>

\* A return statement (or an exception leaving the handler).
Return(resp) ==
    /\ pc' = "done"
    /\ response' = resp

\* Lines 397-400 and 423: config["analysis_key"] or config["analysis_api_token"]
\* raises KeyError.
CredentialsMissingKeyOnly(cfg) == ~cfg.analysis_key

CredentialsMissing(cfg) == ~cfg.analysis_key \/ ~cfg.analysis_api_token

\* Lines 394-425: the sandbox clients; a missing credential is a KeyError.
ConnectAnalysis ==
    /\ pc = "connect"
    /\ IF CredentialsMissing(config)
       THEN /\ Return(ErrorResponse("connecting"))
            /\ UNCHANGED clients
       ELSE /\ clients' = IF config.analysis_url
                          THEN <<DEFAULT_ENDPOINT>>
                          ELSE <<NSX_DEFENDER_DC_WESTUS, NSX_DEFENDER_DC_NLEMEA>>
            /\ pc' = "connect_misp"
            /\ UNCHANGED response
    /\ UNCHANGED <<request, config, misp_client, vt_client, file_data, task_uuid,
                   tags, report, calls, pureVars>>

\* Lines 427-436: the MISP client (soft-fail).
ConnectMisp ==
    /\ pc = "connect_misp"
    /\ misp_client' = IF config.misp = "ok" THEN "ok" ELSE "none"
    /\ pc' = "connect_vt"
    /\ UNCHANGED <<request, config, clients, vt_client, file_data, task_uuid, tags,
                   report, calls, response, pureVars>>

\* Lines 438-443: the VT client (soft-fail).
ConnectVT ==
    /\ pc = "connect_vt"
    /\ vt_client' = IF config.vt_key = "ok" THEN "open" ELSE "none"
    /\ pc' = "decode"
    /\ UNCHANGED <<request, config, clients, misp_client, file_data, task_uuid, tags,
                   report, calls, response, pureVars>>

\* Lines 447-465: what reading and decoding the attribute ends in: "ok", or
\* the exception raised.
DecodeOutcome(req) ==
    IF ~req.has_attribute \/ req.type = "missing" THEN "KeyError"
    ELSE IF req.type = "url"
         THEN IF req.value = "missing" THEN "KeyError" ELSE "ok"
    ELSE IF req.type \in SampleTypes
         THEN IF req.data = "missing" THEN "KeyError"
              ELSE IF req.data = "not_string" THEN "TypeError"
              ELSE IF req.data = "bad_base64" THEN "ValueError"
              ELSE IF req.type = "malware-sample" /\ req.data = "bad_zip"
                   THEN "BadZipFile"
              ELSE IF req.type = "malware-sample" /\ req.value = "missing"
                   THEN "KeyError"
              ELSE "ok"
    ELSE IF req.value = "missing" THEN "KeyError" ELSE "ok"

\* Lines 480-491: the except clauses of the request block. The KeyError
\* clause logs request["attribute"], which raises again without that key.
RequestFailure(req, exc) ==
    CASE exc = "KeyError" ->
            IF req.has_attribute THEN ErrorResponse("parsing") ELSE Raised("KeyError")
      [] exc = "TypeError" -> ErrorResponse("decoding")
      [] exc = "ValueError" -> ErrorResponse("processing")
      [] exc \in {"CommunicationError", "ApiError"} -> ErrorResponse("api")
      [] OTHER -> Raised(exc)

\* Lines 503-512: the except clause of the tag and report block.
PartialResultNoTags(analysis_link, tgs) == LinkResponse(analysis_link, <<>>)

PartialResultAsError(analysis_link, tgs) == ErrorResponse("api")

PartialResult(analysis_link, tgs) == LinkResponse(analysis_link, tgs)

\* Lines 447-468: a URL goes straight to submission, everything else to the
\* resolution by hash.
AfterDecodeResolveFirst(type) == "resolve"

AfterDecode(type) == IF type = "url" THEN "submit_url" ELSE "resolve"

\* Lines 445-465: classify the attribute and decode its payload.
Decode ==
    /\ pc = "decode"
    /\ LET outcome == DecodeOutcome(request)
       IN  IF outcome # "ok"
           THEN /\ Return(RequestFailure(request, outcome))
                /\ UNCHANGED file_data
           ELSE /\ pc' = AfterDecode(request.type)
                /\ file_data' = IF request.type \in SampleTypes
                                THEN request.data ELSE "none"
                /\ UNCHANGED response
    /\ UNCHANGED <<request, config, clients, misp_client, vt_client, task_uuid, tags,
                   report, calls, pureVars>>

\* Lines 449-450: submit_url on the primary endpoint.
SubmitUrl ==
    /\ pc = "submit_url"
    /\ \/ \E f \in Failures :
            /\ calls' = Append(calls, Call("submit_url", DEFAULT_ENDPOINT, NoneUuid,
                                           f.outcome, f.why, 0, NoScore))
            /\ Return(RequestFailure(request, f.outcome))
            /\ UNCHANGED <<task_uuid, tags>>
       \/ \E resp \in SubmissionResponses :
            LET parsed == _parse_submission_response(resp)
            IN  /\ calls' = Append(calls, Call("submit_url", DEFAULT_ENDPOINT,
                                               resp.task_uuid, "ok", "", 0, resp.score))
                /\ IF parsed.ok
                   THEN /\ task_uuid' = parsed.task_uuid
                        /\ tags' = parsed.tags
                        /\ pc' = "collect_tags"
                        /\ UNCHANGED response
                   ELSE /\ Return(RequestFailure(request, "ValueError"))
                        /\ UNCHANGED <<task_uuid, tags>>
    /\ UNCHANGED <<request, config, clients, misp_client, vt_client, file_data,
                   report, pureVars>>

\* The answers the clients may give to query_file_hash, one per client.
QueryResponses(cl) ==
    IF Len(cl) = 1
    THEN {<<a>> : a \in HandlerTaskLists(cl[1])}
    ELSE {<<a, b>> : a \in HandlerTaskLists(cl[1]), b \in HandlerTaskLists(cl[2])}

QueryCalls(cl, r, n) ==
    [i \in 1..n |-> Call("query_file_hash", cl[i], NoneUuid, "ok", "", Len(r[i]), NoScore)]

\* Where the handler goes after resolution (lines 469-477).
AfterResolveNoDownload(uuid, data) ==
    IF Truthy(uuid) THEN "collect_tags" ELSE "submit_file"

AfterResolveResubmit(uuid, data) ==
    IF data = "bytes" THEN "submit_file"
    ELSE IF Truthy(uuid) THEN "collect_tags"
    ELSE "download"

AfterResolveIsNone(uuid, data) ==
    IF Truthy(uuid) THEN "collect_tags"
    ELSE IF data # "none" THEN "submit_file"
    ELSE "download"

AfterResolve(uuid, data) ==
    IF Truthy(uuid) THEN "collect_tags"
    ELSE IF data = "bytes" THEN "submit_file"
    ELSE "download"

\* Lines 467-468: _get_latest_analysis over every client, in dict order; the
\* first failing query ends it.
Resolve ==
    /\ pc = "resolve"
    /\ \E r \in QueryResponses(clients) :
        \/ \E k \in 1..Len(clients), f \in Failures :
            /\ calls' = calls \o QueryCalls(clients, r, k - 1)
                        \o <<Call("query_file_hash", clients[k], NoneUuid,
                                  f.outcome, f.why, 0, NoScore)>>
            /\ tags' = <<>>
            /\ Return(RequestFailure(request, f.outcome))
            /\ UNCHANGED task_uuid
        \/ /\ calls' = calls \o QueryCalls(clients, r, Len(clients))
           /\ tags' = <<>>
           /\ task_uuid' = _get_latest_analysis(r)
           /\ pc' = AfterResolve(_get_latest_analysis(r), file_data)
           /\ UNCHANGED response
    /\ UNCHANGED <<request, config, clients, misp_client, vt_client, file_data,
                   report, pureVars>>

\* Lines 471-475 and _download_from_vt: no local sample, so fetch it from VT;
\* the client is closed whether download_file returns or raises.
Download ==
    /\ pc = "download"
    /\ IF vt_client = "none"
       THEN /\ Return(RequestFailure(request, "ValueError"))
            /\ UNCHANGED <<vt_client, file_data, tags, calls>>
       ELSE \/ /\ calls' = Append(calls, Call("download_file", "vt", NoneUuid,
                                              "ok", "", 0, NoScore))
               /\ vt_client' = "closed"
               /\ file_data' = "bytes"
               /\ tags' = Append(tags, VT_DOWNLOAD_TAG)
               /\ pc' = "submit_file"
               /\ UNCHANGED response
            \/ \E exc \in {"IOError", "APIError"} :
               /\ calls' = Append(calls, Call("download_file", "vt", NoneUuid,
                                              exc, "download", 0, NoScore))
               /\ vt_client' = "closed"
               /\ Return(RequestFailure(request, "ValueError"))
               /\ UNCHANGED <<file_data, tags>>
    /\ UNCHANGED <<request, config, clients, misp_client, task_uuid, report, pureVars>>

\* Lines 477-479: submit_file on the primary endpoint.
SubmitFile ==
    /\ pc = "submit_file"
    /\ \/ \E f \in Failures :
            /\ calls' = Append(calls, Call("submit_file", DEFAULT_ENDPOINT, NoneUuid,
                                           f.outcome, f.why, 0, NoScore))
            /\ Return(RequestFailure(request, f.outcome))
            /\ UNCHANGED <<task_uuid, tags>>
       \/ \E resp \in SubmissionResponses :
            LET parsed == _parse_submission_response(resp)
            IN  /\ calls' = Append(calls, Call("submit_file", DEFAULT_ENDPOINT,
                                               resp.task_uuid, "ok", "", 0, resp.score))
                /\ IF parsed.ok
                   THEN /\ task_uuid' = parsed.task_uuid
                        /\ tags' = tags \o parsed.tags
                        /\ pc' = "collect_tags"
                        /\ UNCHANGED response
                   ELSE /\ Return(RequestFailure(request, "ValueError"))
                        /\ UNCHANGED <<task_uuid, tags>>
    /\ UNCHANGED <<request, config, clients, misp_client, vt_client, file_data,
                   report, pureVars>>

\* Lines 493-497: the permalink, built from the primary endpoint's base.
AnalysisLink == TaskLink(task_uuid, ~config.analysis_url)

\* Line 501, with the except clause of lines 503-512: the analysis tags,
\* from the primary endpoint.
CollectTags ==
    /\ pc = "collect_tags"
    /\ \/ \E f \in TaskFailures(task_uuid) :
            /\ calls' = Append(calls, Call("get_analysis_tags", DEFAULT_ENDPOINT,
                                           task_uuid, f.outcome, f.why, 0, NoScore))
            /\ Return(PartialResult(AnalysisLink, tags))
            /\ UNCHANGED tags
       \/ \E raw \in HandlerRawTags :
            /\ calls' = Append(calls, Call("get_analysis_tags", DEFAULT_ENDPOINT,
                                           task_uuid, "ok", "", 0, NoScore))
            /\ tags' = tags \o _get_analysis_tags(raw)
            /\ pc' = "get_result"
            /\ UNCHANGED response
    /\ UNCHANGED <<request, config, clients, misp_client, vt_client, file_data,
                   task_uuid, report, pureVars>>

\* Line 502, with the except clause of lines 503-512: the report, from the
\* primary endpoint.
GetResult ==
    /\ pc = "get_result"
    /\ \/ \E f \in ReportFailures(task_uuid) :
            /\ calls' = Append(calls, Call("get_result", DEFAULT_ENDPOINT,
                                           task_uuid, f.outcome, f.why, 0, NoScore))
            /\ Return(PartialResult(AnalysisLink, tags))
            /\ UNCHANGED report
       \/ \E rep \in HandlerReports :
            /\ calls' = Append(calls, Call("get_result", DEFAULT_ENDPOINT,
                                           task_uuid, "ok", "", 0, NoScore))
            /\ report' = rep
            /\ pc' = "transform"
            /\ UNCHANGED response
    /\ UNCHANGED <<request, config, clients, misp_client, vt_client, file_data,
                   task_uuid, tags, pureVars>>

\* Lines 521-523: the handler's tags that go onto the event.
EventTagsKeepAll(tgs) == tgs

EventTags(tgs) == SelectSeq(tgs, LAMBDA t : t # WORKFLOW_COMPLETE_TAG)

\* Lines 519-530: parse the report and package the event.
Package(analysis_link, rep, galaxy, tgs) ==
    LET event == parse(analysis_link, rep, galaxy)
    IN  IF event.exc # ""
        THEN Raised(event.exc)
        ELSE GraphResponse(event.objects, event.tags \o EventTags(tgs))

\* Lines 515-533: the technique catalog, the transformation, the response.
Transform ==
    /\ pc = "transform"
    /\ IF misp_client = "ok"
       THEN \/ /\ calls' = Append(calls, Call("get_galaxy", "misp", NoneUuid,
                                              "PyMISPError", "galaxy", 0, NoScore))
               /\ Return(ErrorResponse("report"))
            \/ \E clusters \in HandlerClusterLists :
               /\ calls' = Append(calls, Call("get_galaxy", "misp", NoneUuid,
                                              "ok", "", Len(clusters), NoScore))
               /\ Return(Package(AnalysisLink, report,
                                 _get_mitre_techniques_galaxy(clusters), tags))
       ELSE /\ Return(Package(AnalysisLink, report, <<>>, tags))
            /\ UNCHANGED calls
    /\ UNCHANGED <<request, config, clients, misp_client, vt_client, file_data,
                   task_uuid, tags, report, pureVars>>

Next ==
    \/ ConnectAnalysis
    \/ ConnectMisp
    \/ ConnectVT
    \/ Decode
    \/ SubmitUrl
    \/ Resolve
    \/ Download
    \/ SubmitFile
    \/ CollectTags
    \/ GetResult
    \/ Transform

Spec == Init /\ [][Next]_vars

----------------------------------------------------------------------------
(* The helpers on their own: inputs drawn from the bounded sets, one call. *)

PureFns == {"_get_latest_analysis", "_parse_submission_response",
            "_get_analysis_tags", "parse"}

\* For every client, in dict order, the "tasks" of its answer.
ResolverArgs ==
    {[clients |-> <<DEFAULT_ENDPOINT>>, responses |-> <<a>>] :
        a \in TaskLists(DEFAULT_ENDPOINT)}
    \cup {[clients |-> <<NSX_DEFENDER_DC_WESTUS, NSX_DEFENDER_DC_NLEMEA>>,
           responses |-> <<a, b>>] :
            a \in TaskLists(NSX_DEFENDER_DC_WESTUS),
            b \in TaskLists(NSX_DEFENDER_DC_NLEMEA)}

\* The clients dict (its keys, in order), the task and the "analysis_tags" of
\* the answer.
AnalysisTagsArgs ==
    [clients : {<<DEFAULT_ENDPOINT>>,
                <<NSX_DEFENDER_DC_WESTUS, NSX_DEFENDER_DC_NLEMEA>>},
     task_uuid : {NewUuid}, raw : RawTagLists]

ParseArgs ==
    [analysis_link : {TaskLink(NewUuid, TRUE)}, result : MitreReports,
     galaxy : Galaxies]
    \cup [analysis_link : {TaskLink(NewUuid, TRUE), TaskLink(NewUuid, FALSE)},
          result : ObjectReports, galaxy : {<<>>}]
    \cup [analysis_link : {TaskLink(NewUuid, TRUE)}, result : DnsReports,
           galaxy : {<<>>}]

PureArgs(f) ==
    CASE f = "_get_latest_analysis" -> ResolverArgs
      [] f = "_parse_submission_response" -> [response : SubmissionResponses]
      [] f = "_get_analysis_tags" -> AnalysisTagsArgs
      [] f = "parse" -> ParseArgs

InitPure ==
    /\ pc = "call"
    /\ fn \in PureFns
    /\ args \in PureArgs(fn)
    /\ ret = <<>>
    /\ request = [has_attribute |-> FALSE, type |-> "missing", value |-> "missing",
                  data |-> "missing"]
    /\ config = [analysis_key |-> FALSE, analysis_api_token |-> FALSE,
                 analysis_url |-> FALSE, vt_key |-> "absent", misp |-> "absent"]
    /\ clients = <<>>
    /\ misp_client = "none"
    /\ vt_client = "none"
    /\ file_data = "none"
    /\ task_uuid = NoneUuid
    /\ tags = <<>>
    /\ report = NoReport
    /\ calls = <<>>
    /\ response = NoResponse

Returned(f) == fn = f /\ pc = "returned"

CallLatestAnalysis ==
    /\ pc = "call"
    /\ fn = "_get_latest_analysis"
    /\ ret' = _get_latest_analysis(args.responses)
    /\ pc' = "returned"
    /\ UNCHANGED <<request, config, clients, misp_client, vt_client, file_data,
                   task_uuid, tags, report, calls, response, fn, args>>

CallParseSubmissionResponse ==
    /\ pc = "call"
    /\ fn = "_parse_submission_response"
    /\ ret' = _parse_submission_response(args.response)
    /\ pc' = "returned"
    /\ UNCHANGED <<request, config, clients, misp_client, vt_client, file_data,
                   task_uuid, tags, report, calls, response, fn, args>>

\* Lines 290-304: one get_analysis_tags call, on clients[DEFAULT_ENDPOINT].
CallAnalysisTags ==
    /\ pc = "call"
    /\ fn = "_get_analysis_tags"
    /\ calls' = <<Call("get_analysis_tags", DEFAULT_ENDPOINT, args.task_uuid,
                       "ok", "", 0, NoScore)>>
    /\ ret' = _get_analysis_tags(args.raw)
    /\ pc' = "returned"
    /\ UNCHANGED <<request, config, clients, misp_client, vt_client, file_data,
                   task_uuid, tags, report, response, fn, args>>

CallParse ==
    /\ pc = "call"
    /\ fn = "parse"
    /\ ret' = parse(args.analysis_link, args.result, args.galaxy)
    /\ pc' = "returned"
    /\ UNCHANGED <<request, config, clients, misp_client, vt_client, file_data,
                   task_uuid, tags, report, calls, response, fn, args>>

NextPure ==
    \/ CallLatestAnalysis
    \/ CallParseSubmissionResponse
    \/ CallAnalysisTags
    \/ CallParse

SpecPure == InitPure /\ [][NextPure]_vars

----------------------------------------------------------------------------
(* Properties of the helpers, under SpecPure.                              *)

\* C1: for every non-empty merged list of task records, whatever the order of
\* the endpoints' answers and of the records in them, _get_latest_analysis
\* returns the task_uuid of a record whose expiration is the latest of all.
C1_LatestHasMaxExpiration ==
    (Returned("_get_latest_analysis") /\ MergeResults(args.responses) # <<>>) =>
        LET results == MergeResults(args.responses)
        IN  \E i \in 1..Len(results) :
                /\ results[i].task_uuid = ret
                /\ \A j \in 1..Len(results) :
                       \/ results[j].expires[1] < results[i].expires[1]
                       \/ /\ results[j].expires[1] = results[i].expires[1]
                          /\ results[j].expires[2] <= results[i].expires[2]

\* Two endpoints with two records each, the latest one first in the merge.
C1_Witness ==
    /\ Returned("_get_latest_analysis")
    /\ Len(MergeResults(args.responses)) = 4
    /\ ret = <<NSX_DEFENDER_DC_WESTUS, 1>>
    /\ \A j \in 2..4 :
          _parse_expiration(MergeResults(args.responses)[j])
              < _parse_expiration(MergeResults(args.responses)[1])

\* C7 as stated: a report's sub-technique id (T1.1) with a catalog that holds
\* only the parent id (T1) gets the parent entry's tag.
C7_ParentEntryTagsSubTechnique ==
    (Returned("parse") /\ ret.exc = "") =>
        LET refs == Flatten(args.result.activity_to_mitre_techniques)
        IN  \A i \in 1..Len(refs), k \in 1..Len(args.galaxy) :
                ( /\ refs[i] = <<"T", "1", ".", "1">>
                  /\ args.galaxy[k].value = <<"T", "1">>
                  /\ \A m \in 1..Len(args.galaxy) : ~HasDot(args.galaxy[m].value) )
                => args.galaxy[k].tag_name \in Range(ret.tags)

\* Whether catalog id b holds report id a at some offset, letter case aside.
HoldsId(a, b) ==
    \E off \in 0..(Len(b) - Len(a)) :
        \A n \in 1..Len(a) : Lower(a[n]) = Lower(b[off + n])

\* C7 amended: for a sub-technique reference parse adds the tag of the first
\* catalog entry whose id holds the whole sub-technique id, and nothing when
\* no entry does: a catalog with only the parent id gives no tag.
C7_SubTechniqueNeedsContainingEntry ==
    (Returned("parse") /\ ret.exc = "") =>
        LET refs == Flatten(args.result.activity_to_mitre_techniques)
        IN  \A i \in 1..Len(refs) :
                HasDot(refs[i]) =>
                    LET hits == {k \in 1..Len(args.galaxy) :
                                    HoldsId(refs[i], args.galaxy[k].value)}
                    IN  IF hits = {}
                        THEN ret.mitre[i] = <<>>
                        ELSE \E k \in hits :
                                /\ \A m \in hits : k <= m
                                /\ ret.mitre[i] = <<args.galaxy[k].tag_name>>

\* The sub-technique T1.1 against a catalog holding the parent T1 only: no tag.
C7_Witness ==
    /\ Returned("parse")
    /\ args.result.activity_to_mitre_techniques = << <<<<"T", "1", ".", "1">>>> >>
    /\ Len(args.galaxy) = 1
    /\ args.galaxy[1].value = <<"T", "1">>
    /\ ret.exc = ""
    /\ ret.tags = <<>>

\* C8: for a technique reference without a sub-technique qualifier parse never
\* adds the tag of a catalog entry whose id is a sub-technique, whatever the
\* catalog's order; and every technique reference adds at most one tag.
C8_NoSubTechniqueTagAtMostOne ==
    (Returned("parse") /\ ret.exc = "") =>
        LET refs == Flatten(args.result.activity_to_mitre_techniques)
        IN  /\ Len(ret.mitre) = Len(refs)
            /\ ret.tags = Flatten(ret.mitre)
            /\ \A i \in 1..Len(refs) :
                /\ Len(ret.mitre[i]) <= 1
                /\ ~HasDot(refs[i]) =>
                     \A k \in 1..Len(args.galaxy) :
                        HasDot(args.galaxy[k].value) =>
                            args.galaxy[k].tag_name \notin Range(ret.mitre[i])

\* T1 against the catalog <<T1.1, T1>>: only T1's tag.
C8_Witness ==
    /\ Returned("parse")
    /\ args.result.activity_to_mitre_techniques = << <<<<"T", "1">>>> >>
    /\ Len(args.galaxy) = 2
    /\ args.galaxy[1].value = <<"T", "1", ".", "1">>
    /\ args.galaxy[2].value = <<"T", "1">>
    /\ ret.tags = <<"mitre:T1">>

\* C9: _parse_submission_response fails when the response has no task
\* identifier or an empty one; otherwise it returns the task_uuid and exactly
\* one workflow tag: complete iff the score is not null (0 included),
\* incomplete iff the score is absent or null.
C9_SubmissionResponse ==
    Returned("_parse_submission_response") =>
        LET resp == args.response
        IN  IF resp.task_uuid \in {NoneUuid, EmptyUuid}
            THEN ~ret.ok
            ELSE /\ ret.ok
                 /\ ret.task_uuid = resp.task_uuid
                 /\ Len(ret.tags) = 1
                 /\ (ret.tags[1] = WORKFLOW_COMPLETE_TAG) <=> (resp.score # NoScore)
                 /\ (ret.tags[1] = WORKFLOW_INCOMPLETE_TAG) <=> (resp.score = NoScore)

\* A score of 0 with a task identifier: complete.
C9_Witness ==
    /\ Returned("_parse_submission_response")
    /\ args.response.task_uuid = NewUuid
    /\ args.response.score = 0
    /\ ret.ok
    /\ ret.tags = <<WORKFLOW_COMPLETE_TAG>>

\* The domain-ip objects of the returned event, in order.
DomainIps == SelectSeq(ret.objects, LAMBDA o : o.name = "domain-ip")

\* The hostname is one the DNS-query step is to leave out.
ListedHostname(h) ==
    \/ h = <<"w", "p", "a", "d">>
    \/ h = <<"l", "o", "c", "a", "l", "h", "o", "s", "t">>
    \/ \A i \in 1..Len(h) : h[i] # "."
    \/ h # <<>> /\ h[Len(h)] = "."
    \/ IsIpAddress(h)

\* C17: parse emits no domain-ip object for a query whose hostname is wpad or
\* localhost, has no dot, ends with a dot or is a literal IP address, and for
\* every other query exactly one, in the report's order, with the hostname
\* and one ip attribute per resolved address.
C17_DomainIpPerResolvableHostname ==
    (/\ Returned("parse")
     /\ args.result.analysis_subject # "missing" /\ args.result.score # NoScore
     /\ ~NoHostname(args.result)) =>
        LET kept == SelectSeq(args.result.dns_queries,
                              LAMBDA q : ~ListedHostname(q.hostname))
        IN  /\ ret.exc = ""
            /\ Len(DomainIps) = Len(kept)
            /\ \A i \in 1..Len(kept) :
                  /\ DomainIps[i].hostname = kept[i].hostname
                  /\ DomainIps[i].ip = kept[i].results

\* A literal address followed by a resolvable hostname: one object, for the
\* hostname.
C17_Witness ==
    /\ Returned("parse")
    /\ args.result.dns_queries
          = <<DnsQuery(<<"1", ".", "1", ".", "1", ".", "1">>, <<"ip1">>),
              DnsQuery(<<"a", ".", "a">>, <<"ip1">>)>>
    /\ DomainIps = <<[name |-> "domain-ip", hostname |-> <<"a", ".", "a">>,
                      ip |-> <<"ip1">>]>>

\* The sb-signature objects of the returned event, in order.
Signatures == SelectSeq(ret.objects, LAMBDA o : o.name = "sb-signature")

\* C18: parse emits an sb-signature object iff malicious_activity is not
\* empty, and then exactly one, with one signature attribute per activity.
C18_SignatureIffActivity ==
    (Returned("parse") /\ ret.exc = "") =>
        LET activity == args.result.malicious_activity
        IN  /\ Signatures # <<>> <=> activity # <<>>
            /\ Len(Signatures) <= 1
            /\ \A i \in 1..Len(Signatures) :
                  /\ Len(Signatures[i].signature) = Len(activity)
                  /\ \A k \in 1..Len(activity) :
                        Signatures[i].signature[k] = activity[k]

\* Two activities: one object with two signature attributes.
C18_Witness ==
    /\ Returned("parse")
    /\ args.result.malicious_activity = <<"act1", "act2">>
    /\ Len(Signatures) = 1
    /\ Signatures[1].signature = <<"act1", "act2">>

\* Every tag the function can return for values a and b, in ascending
\* lexicographic order.
TagStrings == <<"av-cls:a", "av-cls:b", "av-fam:a", "av-fam:b", "nsx:a", "nsx:b">>

TagPosition(t) == CHOOSE i \in 1..Len(TagStrings) : TagStrings[i] = t

\* prefix followed by the value of every raw tag of the type.
Prefixed(raw, type, prefix) ==
    {prefix \o raw[i].value : i \in {j \in 1..Len(raw) : raw[j].type = type}}

\* C19: _get_analysis_tags asks the primary endpoint only, and returns, in
\* strictly ascending lexicographic order (so without duplicates), exactly
\* the av-fam:, av-cls: and nsx: tags of the raw tags of type av_family,
\* av_class and lastline_malware; other raw tags contribute nothing.
C19_AnalysisTagsSortedSetFromPrimary ==
    Returned("_get_analysis_tags") =>
        /\ Len(calls) = 1
        /\ calls[1].op = "get_analysis_tags"
        /\ calls[1].endpoint = DEFAULT_ENDPOINT
        /\ calls[1].uuid = args.task_uuid
        /\ Range(ret) = Prefixed(args.raw, "av_family", "av-fam:")
                        \cup Prefixed(args.raw, "av_class", "av-cls:")
                        \cup Prefixed(args.raw, "lastline_malware", "nsx:")
        /\ \A i, j \in 1..Len(ret) :
              i < j => TagPosition(ret[i]) < TagPosition(ret[j])

\* Hosted clients, a family tag listed before a class tag: the class tag
\* comes first in the result.
C19_Witness ==
    /\ Returned("_get_analysis_tags")
    /\ Len(args.clients) = 2
    /\ args.raw = << [type |-> "av_family", value |-> "b"],
                     [type |-> "av_class", value |-> "a"] >>
    /\ ret = <<"av-cls:a", "av-fam:b">>
    /\ calls[1].endpoint = NSX_DEFENDER_DC_WESTUS

\* The positions of the merged list whose record expires latest.
LatestPositions(results) ==
    {i \in 1..Len(results) :
        \A j \in 1..Len(results) :
            _parse_expiration(results[j]) <= _parse_expiration(results[i])}

\* C22: when several records of the merged list (endpoints in dict order,
\* records in response order) share the latest expiration,
\* _get_latest_analysis returns the one that comes last in the merged list.
C22_LastSeenWinsTies ==
    (Returned("_get_latest_analysis") /\ MergeResults(args.responses) # <<>>) =>
        LET results == MergeResults(args.responses)
            last == CHOOSE i \in LatestPositions(results) :
                        \A j \in LatestPositions(results) : j <= i
        IN  ret = results[last].task_uuid

\* westus lists one record, nlemea lists one with the same expiration and
\* then an older one: the tie goes to nlemea's first record.
C22_Witness ==
    /\ Returned("_get_latest_analysis")
    /\ Len(args.responses) = 2
    /\ Len(args.responses[1]) = 1 /\ Len(args.responses[2]) = 2
    /\ LatestPositions(MergeResults(args.responses)) = {1, 2}
    /\ ret = <<NSX_DEFENDER_DC_NLEMEA, 1>>

----------------------------------------------------------------------------
(* Properties of the handler, under Spec.                                  *)

Done == pc = "done"

SandboxErrors == {"CommunicationError", "ApiError"}

CallsOf(op) == {k \in 1..Len(calls) : calls[k].op = op}

\* Every endpoint answered the hash query.
QueriesAllOk ==
    /\ clients # <<>>
    /\ \A i \in 1..Len(clients) :
          \E k \in CallsOf("query_file_hash") :
              calls[k].endpoint = clients[i] /\ calls[k].outcome = "ok"

\* Every endpoint answered the hash query with no task.
ZeroTasks ==
    QueriesAllOk /\ \A k \in CallsOf("query_file_hash") : calls[k].count = 0

\* Every endpoint answered the hash query, one of them with a task.
ResolvedTask ==
    QueriesAllOk /\ \E k \in CallsOf("query_file_hash") : calls[k].count > 0

\* The task is one that a hash query listed.
Listed(uuid) ==
    \E k \in CallsOf("query_file_hash") :
        calls[k].endpoint = uuid[1] /\ uuid[2] \in 1..calls[k].count

DownloadOk == \E k \in CallsOf("download_file") : calls[k].outcome = "ok"

LastCall == calls[Len(calls)]

LastCallFailed == calls # <<>> /\ LastCall.outcome \in SandboxErrors

\* C2 as stated: a hash-based input for which every endpoint lists no task
\* ends with submit_file called on the primary endpoint.
C2_ZeroTasksThenSubmitFile ==
    (Done /\ request.type \in SampleTypes \cup HashTypes /\ ZeroTasks) =>
        \E k \in CallsOf("submit_file") : calls[k].endpoint = DEFAULT_ENDPOINT

\* C2 amended: with no task on any endpoint resolution returns nothing, and
\* the handler submits the file on the primary endpoint exactly when it has
\* sample bytes, a non-empty local payload or a download from the secondary
\* source; without them it returns the processing error and submits nothing.
C2_ZeroTasksSubmitsWhenBytes ==
    (request.type \in SampleTypes \cup HashTypes /\ ZeroTasks) =>
        /\ pc \in {"download", "submit_file"} => task_uuid = NoneUuid
        /\ pc \in {"collect_tags", "get_result", "transform"} =>
              \E k \in CallsOf("submit_file") : calls[k].outcome = "ok"
        /\ \A k \in CallsOf("submit_file") : calls[k].endpoint = DEFAULT_ENDPOINT
        /\ CallsOf("submit_file") # {} => (request.data = "bytes" \/ DownloadOk)
        /\ Done =>
              /\ (request.data = "bytes" \/ DownloadOk) => CallsOf("submit_file") # {}
              /\ CallsOf("submit_file") = {} => response = ErrorResponse("processing")

\* A bare hash no endpoint knows, downloaded and submitted.
C2_Witness ==
    /\ Done
    /\ request.type = "md5"
    /\ ZeroTasks
    /\ Len(clients) = 2
    /\ DownloadOk
    /\ \E k \in CallsOf("submit_file") :
          calls[k].endpoint = DEFAULT_ENDPOINT /\ calls[k].outcome = "ok"

\* C3 as stated: when resolution returns a task there is no submission and
\* no download, and tag collection and report fetch are both performed with
\* the resolved task.
C3_ResolvedThenTagsAndReport ==
    (Done /\ ResolvedTask) =>
        /\ CallsOf("submit_file") \cup CallsOf("submit_url") \cup CallsOf("download_file") = {}
        /\ \E k \in CallsOf("get_analysis_tags") : Listed(calls[k].uuid)
        /\ \E k \in CallsOf("get_result") : Listed(calls[k].uuid)

\* C3 amended: when resolution returns a task there is never a submission or
\* a download; tag collection is performed, once, with the resolved task, and
\* the report fetch is performed, with the same task, exactly when tag
\* collection succeeded.
C3_ResolvedSkipsSubmission ==
    ResolvedTask =>
        /\ CallsOf("submit_file") \cup CallsOf("submit_url") \cup CallsOf("download_file") = {}
        /\ Listed(task_uuid)
        /\ \A k \in CallsOf("get_analysis_tags") \cup CallsOf("get_result") :
              calls[k].uuid = task_uuid /\ calls[k].endpoint = DEFAULT_ENDPOINT
        /\ Done =>
              /\ Cardinality(CallsOf("get_analysis_tags")) = 1
              /\ CallsOf("get_result") # {} <=>
                    \E k \in CallsOf("get_analysis_tags") : calls[k].outcome = "ok"

\* An attachment whose hash is known: nothing is submitted, the report of the
\* listed task is fetched.
C3_Witness ==
    /\ Done
    /\ request.type = "attachment"
    /\ request.data = "bytes"
    /\ ResolvedTask
    /\ CallsOf("submit_file") = {}
    /\ \E k \in CallsOf("get_result") : Listed(calls[k].uuid) /\ calls[k].outcome = "ok"
    /\ response.kind = "graph"

\* The tags of the request block, as the calls show them: the download tag,
\* then the workflow tag of the submission.
SubmissionTags ==
    (IF DownloadOk THEN <<VT_DOWNLOAD_TAG>> ELSE <<>>)
    \o (IF \E k \in CallsOf("submit_file") \cup CallsOf("submit_url") :
                calls[k].outcome = "ok" /\ calls[k].score # NoScore
        THEN <<WORKFLOW_COMPLETE_TAG>>
        ELSE IF \E k \in CallsOf("submit_file") \cup CallsOf("submit_url") :
                calls[k].outcome = "ok"
        THEN <<WORKFLOW_INCOMPLETE_TAG>>
        ELSE <<>>)

\* C4: when get_result fails with a communication or API error the handler
\* returns the link-type result: the permalink of the task, and the tags
\* collected so far, the submission and download tags followed by the
\* analysis tags; not an error response.
C4_ReportFailureGivesPartialResult ==
    (Done /\ LastCallFailed /\ LastCall.op = "get_result") =>
        /\ response.kind = "link"
        /\ response.link = TaskLink(LastCall.uuid, ~config.analysis_url)
        /\ response.tags = tags
        /\ \E raw \in HandlerRawTags :
              response.tags = SubmissionTags \o _get_analysis_tags(raw)

\* A downloaded sample, still being analysed: all four kinds of tag.
C4_Witness ==
    /\ Done
    /\ LastCallFailed
    /\ LastCall.op = "get_result"
    /\ LastCall.why = "pending"
    /\ response.kind = "link"
    /\ response.tags = <<VT_DOWNLOAD_TAG, WORKFLOW_INCOMPLETE_TAG, "av-cls:a", "av-fam:b">>

\* C5 as stated: a failing query_file_hash, submit_url, submit_file or
\* get_analysis_tags gives an error response, and the link-type response
\* comes from a failing get_result only.
C5_OnlyReportFetchDegrades ==
    Done =>
        /\ ( /\ LastCallFailed
             /\ LastCall.op \in {"query_file_hash", "submit_url", "submit_file",
                                 "get_analysis_tags"} )
           => response.kind = "error"
        /\ response.kind = "link" => (LastCallFailed /\ LastCall.op = "get_result")

\* C5 amended: a failing query_file_hash, submit_url or submit_file gives the
\* error response; a failing get_analysis_tags or get_result gives the
\* link-type response, which nothing else produces.
C5_TagsAndReportFetchDegrade ==
    Done =>
        /\ ( /\ LastCallFailed
             /\ LastCall.op \in {"query_file_hash", "submit_url", "submit_file"} )
           => response = ErrorResponse("api")
        /\ ( /\ LastCallFailed
             /\ LastCall.op \in {"get_analysis_tags", "get_result"} )
           => response.kind = "link"
        /\ response.kind = "link" =>
              (LastCallFailed /\ LastCall.op \in {"get_analysis_tags", "get_result"})

\* Tag collection fails after a successful submission: the link-type result.
C5_Witness ==
    /\ Done
    /\ LastCallFailed
    /\ LastCall.op = "get_analysis_tags"
    /\ response.kind = "link"
    /\ response.tags = <<WORKFLOW_COMPLETE_TAG>>

\* The sandbox, VT and MISP answer, the analysis is complete and its report
\* is well formed: no call fails for any reason but the primary endpoint not
\* knowing the task.
Healthy ==
    /\ \A k \in 1..Len(calls) :
          calls[k].outcome = "ok" \/ calls[k].why = "unknown_task"
    /\ pc = "transform" \/ CallsOf("get_result") # {} =>
          (report.analysis_subject # "missing" /\ report.score # NoScore)

SandboxReports == {i \in 1..Len(response.objects) :
                      response.objects[i].name = "sandbox-report"}

\* C6: a bare hash with a completed analysis on any one endpoint, primary or
\* not, gets the full results graph, with exactly one sandbox-report object
\* that carries the report's score and the permalink.
C6_KnownHashGivesFullGraph ==
    (Done /\ request.type \in HashTypes /\ ResolvedTask /\ Healthy) =>
        /\ response.kind = "graph"
        /\ Cardinality(SandboxReports) = 1
        /\ \A i \in SandboxReports :
              /\ response.objects[i].score = report.score
              /\ response.objects[i].permalink
                    = TaskLink(task_uuid, ~config.analysis_url)

\* The score the successful submit_url answered with.
UrlScore == calls[CHOOSE k \in CallsOf("submit_url") : TRUE].score

UrlSubmitted ==
    /\ Done
    /\ request.type = "url"
    /\ \E k \in CallsOf("submit_url") : calls[k].outcome = "ok"
    /\ response.kind \in {"link", "graph"}

\* C10 as stated: the response to a submitted URL carries the complete tag
\* for a non-null score and the incomplete tag for a null score, on the
\* partial-result and on the full-result path.
C10_WorkflowTagOnBothPaths ==
    UrlSubmitted =>
        /\ UrlScore # NoScore => WORKFLOW_COMPLETE_TAG \in Range(response.tags)
        /\ UrlScore = NoScore => WORKFLOW_INCOMPLETE_TAG \in Range(response.tags)

\* C10 amended: the partial result carries the complete tag for a non-null
\* score and the incomplete tag for a null score; the full result carries
\* the incomplete tag for a null score and no workflow tag for a non-null
\* score, the complete tag being left off the event.
C10_WorkflowTagPerPath ==
    UrlSubmitted =>
        /\ UrlScore = NoScore =>
              /\ WORKFLOW_INCOMPLETE_TAG \in Range(response.tags)
              /\ WORKFLOW_COMPLETE_TAG \notin Range(response.tags)
        /\ (UrlScore # NoScore /\ response.kind = "link") =>
              /\ WORKFLOW_COMPLETE_TAG \in Range(response.tags)
              /\ WORKFLOW_INCOMPLETE_TAG \notin Range(response.tags)
        /\ (UrlScore # NoScore /\ response.kind = "graph") =>
              /\ WORKFLOW_COMPLETE_TAG \notin Range(response.tags)
              /\ WORKFLOW_INCOMPLETE_TAG \notin Range(response.tags)

\* A URL scored 0 at submission, full result: no workflow tag on the event.
C10_Witness ==
    /\ UrlSubmitted
    /\ UrlScore = 0
    /\ response.kind = "graph"
    /\ response.tags = <<"av-cls:a", "av-fam:b">>

\* C11: on every path of the handler, a VT client that was built has been
\* closed by the time the handler returns.
C11_VtClientReleasedOnReturn ==
    Done => vt_client # "open"

\* The report fetch answered.
ReportFetched == \E k \in CallsOf("get_result") : calls[k].outcome = "ok"

\* The report lacks a field that parse reads with a subscript.
MalformedReport == report.analysis_subject = "missing" \/ report.score = NoScore

\* C12: when the report fetch succeeds and the report is malformed, the
\* handler returns an error response, and nothing raised during the
\* transformation leaves the handler as an exception.
C12_MalformedReportGivesError ==
    (Done /\ ReportFetched) =>
        /\ response.kind # "raise"
        /\ MalformedReport => response.kind = "error"

\* The tags the technique catalog can hand out.
CatalogTags == {c.tag_name : c \in Clusters}

\* The catalog lookup is unavailable: no MISP client was built, or its
\* get_galaxy failed.
CatalogUnavailable ==
    \/ config.misp \in {"absent", "unreachable"}
    \/ \E k \in CallsOf("get_galaxy") : calls[k].outcome # "ok"

\* C13: with a well-formed report fetched and the technique catalog
\* unavailable (client missing, unreachable at construction, or failing at
\* the query), the handler returns the full results graph without MITRE tags,
\* never an error response.
C13_CatalogFailureStillGivesGraph ==
    (Done /\ ReportFetched /\ ~MalformedReport /\ CatalogUnavailable) =>
        /\ response.kind = "graph"
        /\ Range(response.tags) \cap CatalogTags = {}

\* The request lacks "attribute", or the attribute lacks "type", "value" or
\* the "data" its type requires.
MalformedAttribute ==
    \/ ~request.has_attribute
    \/ request.type = "missing"
    \/ request.value = "missing"
    \/ request.type \in SampleTypes /\ request.data = "missing"

\* C14: a request whose attribute shape is malformed ends in an error
\* response, and the handler does not raise.
C14_MalformedAttributeGivesError ==
    (Done /\ MalformedAttribute) => response.kind = "error"

DownloadFailed == \E k \in CallsOf("download_file") : calls[k].outcome # "ok"

\* A bare hash that no endpoint lists a task for, with VT disabled or its
\* download failing.
UnresolvedHashNoSample ==
    /\ request.type \in HashTypes
    /\ ZeroTasks
    /\ config.vt_key # "ok" \/ DownloadFailed

\* C15: a bare hash that resolves to no task while VT is disabled or its
\* download fails ends in the processing error, and neither submit_file nor
\* tag collection nor report fetch is called in that invocation.
C15_UnresolvedHashNoSampleGivesError ==
    UnresolvedHashNoSample =>
        /\ CallsOf("submit_file") = {}
        /\ CallsOf("get_analysis_tags") = {}
        /\ CallsOf("get_result") = {}
        /\ pc \in {"download", "done"}
        /\ Done => response = ErrorResponse("processing")

\* An md5 with no task on either endpoint whose download from VT failed.
C15_Witness ==
    /\ Done
    /\ UnresolvedHashNoSample
    /\ request.type = "md5"
    /\ Len(clients) = 2
    /\ LastCall.op = "download_file" /\ LastCall.outcome = "IOError"
    /\ vt_client = "closed"
    /\ response = ErrorResponse("processing")

\* C16: with analysis_key or analysis_api_token missing from the config the
\* handler returns the connection error before anything else happens: no
\* client is built and no sandbox, VT or MISP call is made.
C16_MissingCredentialAbortsBeforeAnyCall ==
    (~config.analysis_key \/ ~config.analysis_api_token) =>
        /\ calls = <<>>
        /\ clients = <<>> /\ misp_client = "none" /\ vt_client = "none"
        /\ pc \in {"connect", "done"}
        /\ Done => response = ErrorResponse("connecting")

\* An md5 request whose config has the key, the MISP and the VT settings but
\* no api token.
C16_Witness ==
    /\ Done
    /\ config.analysis_key /\ ~config.analysis_api_token
    /\ config.vt_key = "ok" /\ config.misp = "ok"
    /\ request.type = "md5" /\ request.value = "present"
    /\ calls = <<>>
    /\ response = ErrorResponse("connecting")

\* The subject objects of the response.
Subjects == {i \in 1..Len(response.objects) :
                response.objects[i].name \in {"url", "file"}}

\* C20 as stated: every response the handler returns contains exactly one
\* subject object.
C20_OneSubjectInEveryResponse ==
    (Done /\ response.kind \in {"error", "link", "graph"}) =>
        Cardinality(Subjects) = 1

\* C20 amended: the full results graph contains exactly one subject object,
\* a url object when the report's subject describes a URL and a file object
\* otherwise; the error and the partial-result responses contain no object.
C20_OneSubjectInFullResult ==
    Done =>
        /\ response.kind = "graph" =>
              /\ Cardinality(Subjects) = 1
              /\ \A i \in Subjects :
                    response.objects[i].name
                        = IF report.analysis_subject = "url" THEN "url" ELSE "file"
        /\ response.kind # "graph" => response.objects = <<>>

\* A file report with DNS queries: one file object among three objects.
C20_Witness ==
    /\ Done
    /\ response.kind = "graph"
    /\ report.analysis_subject = "file"
    /\ Len(response.objects) = 3
    /\ Subjects = {1}
    /\ response.objects[1].name = "file"

\* The request reaches the request block with a URL to submit.
UrlRequest ==
    /\ request.has_attribute /\ request.type = "url" /\ request.value = "present"
    /\ config.analysis_key /\ config.analysis_api_token

\* C21: for a URL input the handler makes no query_file_hash call and exactly
\* one submit_url call, on the primary endpoint; no submit_url or submit_file
\* call of any invocation goes to another endpoint.
C21_UrlSubmittedOnceOnPrimary ==
    /\ \A k \in CallsOf("submit_url") \cup CallsOf("submit_file") :
          calls[k].endpoint = DEFAULT_ENDPOINT
    /\ request.type = "url" =>
          /\ CallsOf("query_file_hash") = {}
          /\ CallsOf("submit_file") = {}
          /\ Cardinality(CallsOf("submit_url")) <= 1
    /\ (UrlRequest /\ pc \in {"collect_tags", "get_result", "transform", "done"}) =>
          /\ Cardinality(CallsOf("submit_url")) = 1
          /\ calls[1].op = "submit_url"

\* A URL on the hosted service, full result: the first call is the one
\* submit_url, on westus, and nlemea is never called.
C21_Witness ==
    /\ Done
    /\ UrlRequest
    /\ clients = <<NSX_DEFENDER_DC_WESTUS, NSX_DEFENDER_DC_NLEMEA>>
    /\ calls[1].op = "submit_url" /\ calls[1].endpoint = NSX_DEFENDER_DC_WESTUS
    /\ \A k \in 1..Len(calls) : calls[k].endpoint # NSX_DEFENDER_DC_NLEMEA
    /\ response.kind = "graph"

\* C23: for a malware-sample or attachment input, a zero-length payload
\* included, VT is never contacted and the vt:download tag never appears in
\* the response; a download and the tag occur only for a bare hash that no
\* endpoint lists a task for.
C23_LocalPayloadNeverContactsVT ==
    /\ request.type \in SampleTypes =>
          /\ CallsOf("download_file") = {}
          /\ VT_DOWNLOAD_TAG \notin Range(tags)
          /\ VT_DOWNLOAD_TAG \notin Range(response.tags)
    /\ (CallsOf("download_file") # {} \/ VT_DOWNLOAD_TAG \in Range(response.tags)) =>
          request.type \in HashTypes /\ ZeroTasks

====
